---- MODULE Spec2Model ----
(***************************************************************************)
(* SimulationManager of scr/oxdna_simulation.py: the caller queues         *)
(* simulations, run() forks the head process worker_manager, which forks   *)
(* one worker_job process per simulation.  The three manager queues        *)
(* (sim_queue, process_queue, gpu_memory_queue) are the only state the     *)
(* processes share; every other attribute of the manager is copied at      *)
(* fork.                                                                   *)
(***************************************************************************)
EXTENDS Integers, Sequences, FiniteSets, TLC

\* ------------------------------------------------------------------ bounds

\* Number of simulations the caller queues.
MaxJobs == 3

\* Largest n_processes the manager is constructed with.
MaxProcs == 2

\* Largest number of worker processes that die before their release.
MaxCrashes == 1

\* Largest number of devices the device command reports on.
MaxDevices == 3

\* ---------------------------------------------------------------- constants

\* The margin of the headroom test, free_gpu_memory < (3 * sim_mem).
HeadroomFactor == 3

\* Memory footprints the engine reports for a simulation ("memory:" field).
Footprints == {500, 1000, 4000}

\* The per-device free memory the device command may report, one set of
\* possible answers per machine: a machine with one device that always has
\* 10000 free, and a machine with two devices whose free memory changes.
Machines == { { <<10000>> },
              { <<9000, 4000>>, <<4000, 15000>> } }

\* The text of the device command: a header line, then one line per device.
SmiOutput(frees) ==
    <<"memory.free [MiB]">> \o
        [i \in 1..Len(frees) |-> [free |-> frees[i], unit |-> "MiB"]]

JobIds == 1..MaxJobs

VARIABLES
    n_processes,            \* self.n_processes
    machine,                \* the answers the device command can give
    smi_error,              \* the device command has exited with an error
    sims,                   \* the Simulation objects, in submission order
    sim_queue,              \* self.sim_queue: ids of queued simulations
    process_queue,          \* self.process_queue: slot tokens
    gpu_memory_queue,       \* self.gpu_memory_queue: published footprints
    worker_process_list,    \* self.worker_process_list in the calling process
    manager_process,        \* self.manager_process in the calling process
    caller_pc,              \* the calling process: "idle", or "join" in p.join()
    pc,                     \* worker_manager: the line the head process is at
    sim,                    \* worker_manager: local sim (id of the simulation)
    free_gpu_memory,        \* worker_manager: local free_gpu_memory
    gpu_idx,                \* worker_manager: local gpu_idx
    sim_mem,                \* worker_manager: local sim_mem
    head_process_list,      \* self.worker_process_list in the head process
    wpc,                    \* worker_job: the line each worker process is at
    probe                   \* get_sim_mem: its simulation, locals and line

vars == <<n_processes, machine, smi_error, sims, sim_queue, process_queue,
          gpu_memory_queue, worker_process_list, manager_process, caller_pc,
          pc, sim,
          free_gpu_memory, gpu_idx, sim_mem, head_process_list, wpc, probe>>

\* The state of the manager and its processes apart from get_sim_mem.
scheduler == <<n_processes, machine, smi_error, sims, sim_queue, process_queue,
               gpu_memory_queue, worker_process_list, manager_process,
               caller_pc, pc, sim, free_gpu_memory, gpu_idx, sim_mem,
               head_process_list, wpc>>

config == <<n_processes, machine>>
queues == <<sim_queue, process_queue, gpu_memory_queue>>
caller == <<worker_process_list, manager_process, caller_pc>>
head == <<pc, sim, free_gpu_memory, gpu_idx, sim_mem, head_process_list>>
workers == <<wpc>>

\* ------------------------------------------------------------ manager queues

\* A queue built without its maxsize, so that put never blocks.
QueueFull_Unbounded(q, maxsize) == FALSE

\* A queue that takes its maxsize literally: with maxsize <= 0 it is full.
QueueFull_Literal(q, maxsize) == Len(q) >= maxsize

\* queue.Queue(maxsize): "If maxsize is <= 0, the queue size is infinite".
QueueFull(q, maxsize) == maxsize > 0 /\ Len(q) >= maxsize

QueueEmpty(q) == Len(q) = 0

\* A get that takes the newest entry, and a get that leaves the entry queued.
QueueFront_Newest(q) == q[Len(q)]

QueueRest_Keep(q) == q

\* Queue.put appends at the tail, Queue.get removes the head.
QueuePut(q, x) == Append(q, x)

QueueFront(q) == Head(q)

QueueRest(q) == Tail(q)

\* ------------------------------------------------------------ gpu_resources

Range(s) == {s[i] : i \in DOMAIN s}

\* max(avalible_memory)
ListMax(s) == CHOOSE x \in Range(s) : \A y \in Range(s) : y <= x

\* An index search that returns the last position holding x.
ListIndex_Last(s, x) ==
    (CHOOSE i \in DOMAIN s : s[i] = x /\ \A k \in DOMAIN s : s[k] = x => k <= i) - 1

\* avalible_memory.index(x): the first position holding x, counted from 0.
ListIndex(s, x) ==
    (CHOOSE i \in DOMAIN s : s[i] = x /\ \A k \in DOMAIN s : s[k] = x => i <= k) - 1

\* output_to_list(...)[1:] drops the header; int(x.split()[0]) reads the number.
ParseFree(output) == [i \in 1..(Len(output) - 1) |-> output[i + 1].free]

gpu_resources(output) ==
    LET avalible_memory == ParseFree(output)
        gpu_most_aval_mem_free == ListMax(avalible_memory)
    IN  <<gpu_most_aval_mem_free, ListIndex(avalible_memory, gpu_most_aval_mem_free)>>

\* The headroom test without its margin.
MemoryShort_NoMargin(free, mem) == free < mem

\* The headroom test of lines 381 and 384.
MemoryShort(free, mem) == free < HeadroomFactor * mem

\* -------------------------------------------------------------- get_sim_mem

\* Most calls of get_sim_mem on one simulation.
MaxProbes == 2

\* A value of the input dictionary: a Python str with its text.
StrValue(text) == [type |-> "str", text |-> text]

\* f'{v}': the str that holds the text of v, whatever the type of v.
Format(v) == [type |-> "str", text |-> v.text]

\* The values of 'steps' and 'lastconf_file' a simulation is prepared with:
\* Input stores the values of an oxDNA input file, which are strings
\* ("steps": "1e9", "lastconf_file": "last_conf.dat" by default).
StepsValues == {StrValue("0"), StrValue("1e6"), StrValue("1e9")}

LastconfValues == {StrValue("last_conf.dat"), StrValue("out.dat"), StrValue("temp")}

\* The words of the engine's diagnostics: the word 'memory:' is followed by
\* the footprint.
EngineOutput(mem) ==
    << [word |-> "INFO:", value |-> 0], [word |-> "memory:", value |-> 0],
       [word |-> "number", value |-> mem], [word |-> "MB", value |-> 0] >>

\* The diagnostics of a run that does not print the GPU memory it needs.
EngineOutputNoMemory ==
    << [word |-> "INFO:", value |-> 0], [word |-> "seeding", value |-> 0],
       [word |-> "the", value |-> 0], [word |-> "RNG", value |-> 0] >>

\* 'memory:' in err_split
HasWord(words, w) == \E i \in DOMAIN words : words[i].word = w

\* err_split.index('memory:'): the first position holding the word.
WordIndex(words, w) ==
    CHOOSE i \in DOMAIN words :
        words[i].word = w /\ \A k \in DOMAIN words : words[k].word = w => i <= k

\* A simulation prepared with the given input, before any call of
\* get_sim_mem: input is sim.input.input, json the input.json last written,
\* files the files the calls leave in sim_dir.
ProbeStart(mem, steps, lastconf_file) ==
    [ pc |-> "idle", mem |-> mem,
      input |-> [steps |-> steps, lastconf_file |-> lastconf_file],
      json |-> [steps |-> steps, lastconf_file |-> lastconf_file],
      before |-> [steps |-> steps, lastconf_file |-> lastconf_file],
      steps |-> StrValue(""), last_conf_file |-> StrValue(""),
      out |-> <<>>, ran |-> <<>>, files |-> {}, returned |-> <<>> ]

\* The manager's processes are followed with get_sim_mem as one step of the
\* worker (Publish): no call of get_sim_mem is followed line by line.
ProbeIdle == [pc |-> "untraced"]

\* ---------------------------------------------------------------------- Init

Init ==
    /\ probe = ProbeIdle
    /\ n_processes \in 0..MaxProcs
    /\ machine \in Machines
    /\ smi_error = FALSE
    /\ sims = <<>>
    /\ sim_queue = <<>>
    /\ process_queue = <<>>
    /\ gpu_memory_queue = <<>>
    /\ worker_process_list = <<>>
    /\ manager_process = "unset"
    /\ caller_pc = "idle"
    /\ pc = "off"
    /\ sim = 0
    /\ free_gpu_memory = 0
    /\ gpu_idx = 0
    /\ sim_mem = 0
    /\ head_process_list = <<>>
    /\ wpc = [j \in JobIds |-> "none"]

\* -------------------------------------------------------------------- caller

\* queue_sim(sim): a new Simulation whose engine footprint is mem.
\* continue_run only rewrites conf_file, refresh_vel and restart_step_counter,
\* which no step below reads.  CUDA_device is -1 until the key is written.
queue_sim(mem) ==
    /\ caller_pc = "idle"
    /\ Len(sims) < MaxJobs
    /\ sims' = Append(sims, [mem |-> mem, CUDA_device |-> -1, runs |-> 0])
    /\ sim_queue' = QueuePut(sim_queue, Len(sims) + 1)
    /\ UNCHANGED <<config, probe, smi_error, process_queue, gpu_memory_queue, caller, head, workers>>

\* The head process is alive.
HeadRunning == pc \notin {"off", "done", "failed", "terminated"}

\* run(join): lines 404-405 fork the head process, which starts with a copy
\* of the caller's attributes, worker_process_list included.  With join the
\* caller goes on to p.join() of line 407 and line 408 is not reached yet;
\* without it line 408 stores the process and run returns.
run(join) ==
    /\ caller_pc = "idle"
    /\ manager_process = "unset"
    /\ pc = "off"
    /\ pc' = "while"
    /\ head_process_list' = worker_process_list
    /\ caller_pc' = IF join THEN "join" ELSE "idle"
    /\ manager_process' = IF join THEN "unset" ELSE "started"
    /\ UNCHANGED <<config, probe, smi_error, sims, queues, worker_process_list, sim,
                   free_gpu_memory, gpu_idx, sim_mem, workers>>

\* A join that gives up at once, as p.join(0) would.
JoinReturn_NoWait ==
    /\ caller_pc = "join"
    /\ caller_pc' = "idle"
    /\ manager_process' = IF HeadRunning THEN "started" ELSE "joined"
    /\ UNCHANGED <<config, probe, smi_error, sims, queues, worker_process_list, head,
                   workers>>

\* lines 407-408: p.join() returns once the head process has ended, and run
\* stores the joined process and returns.
JoinReturn ==
    /\ caller_pc = "join"
    /\ ~HeadRunning
    /\ caller_pc' = "idle"
    /\ manager_process' = "joined"
    /\ UNCHANGED <<config, probe, smi_error, sims, queues, worker_process_list, head,
                   workers>>

Live(w) == w \in {"probe", "run"}

\* process.terminate() for every process of the list.
TerminateWorkers(list, w) ==
    [j \in JobIds |-> IF j \in Range(list) /\ Live(w[j]) THEN "killed" ELSE w[j]]

\* The locals of worker_manager end with the head process.
HeadExit ==
    /\ sim' = 0
    /\ free_gpu_memory' = 0
    /\ gpu_idx' = 0
    /\ sim_mem' = 0

\* A terminate_all that also empties process_queue.
terminate_all_Flush ==
    /\ caller_pc = "idle"
    /\ manager_process # "unset"
    /\ manager_process' = "terminated"
    /\ pc' = IF HeadRunning THEN "terminated" ELSE pc
    /\ wpc' = TerminateWorkers(worker_process_list, wpc)
    /\ process_queue' = <<>>
    /\ HeadExit
    /\ UNCHANGED <<config, probe, smi_error, sims, sim_queue, gpu_memory_queue,
                   worker_process_list, caller_pc, head_process_list>>

\* terminate_all(): the head process, then the workers of the caller's list.
terminate_all ==
    /\ caller_pc = "idle"
    /\ manager_process # "unset"
    /\ manager_process' = "terminated"
    /\ pc' = IF HeadRunning THEN "terminated" ELSE pc
    /\ wpc' = TerminateWorkers(worker_process_list, wpc)
    /\ HeadExit
    /\ UNCHANGED <<config, probe, smi_error, sims, queues, worker_process_list,
                   caller_pc, head_process_list>>

\* ------------------------------------------------------------- worker_manager

\* An admission written with if instead of while: one launch at most.
LoopTest_IfOnly ==
    /\ pc = "while"
    /\ pc' = IF QueueEmpty(sim_queue) \/ head_process_list # <<>>
             THEN "drain" ELSE "put"
    /\ UNCHANGED <<config, probe, smi_error, sims, queues, caller, sim, free_gpu_memory, gpu_idx,
                   sim_mem, head_process_list, workers>>

\* line 371: while not self.sim_queue.empty()
LoopTest ==
    /\ pc = "while"
    /\ pc' = IF QueueEmpty(sim_queue) THEN "drain" ELSE "put"
    /\ UNCHANGED <<config, probe, smi_error, sims, queues, caller, sim, free_gpu_memory, gpu_idx,
                   sim_mem, head_process_list, workers>>

\* A put that does not wait for room in process_queue.
Acquire_NoBlock ==
    /\ pc = "put"
    /\ process_queue' = QueuePut(process_queue, "Simulation worker finished")
    /\ pc' = "get"
    /\ UNCHANGED <<config, probe, smi_error, sims, sim_queue, gpu_memory_queue, caller,
                   sim, free_gpu_memory, gpu_idx, sim_mem, head_process_list,
                   workers>>

\* A put that leaves two tokens in process_queue for one admission.
Acquire_Twice ==
    /\ pc = "put"
    /\ ~QueueFull(process_queue, n_processes)
    /\ process_queue' = QueuePut(QueuePut(process_queue, "Simulation worker finished"),
                                 "Simulation worker finished")
    /\ pc' = "get"
    /\ UNCHANGED <<config, probe, smi_error, sims, sim_queue, gpu_memory_queue, caller, sim,
                   free_gpu_memory, gpu_idx, sim_mem, head_process_list, workers>>

\* line 373: self.process_queue.put(...), blocking while the queue is full
Acquire ==
    /\ pc = "put"
    /\ ~QueueFull(process_queue, n_processes)
    /\ process_queue' = QueuePut(process_queue, "Simulation worker finished")
    /\ pc' = "get"
    /\ UNCHANGED <<config, probe, smi_error, sims, sim_queue, gpu_memory_queue, caller, sim,
                   free_gpu_memory, gpu_idx, sim_mem, head_process_list, workers>>

\* line 374: sim = self.sim_queue.get()
Dequeue ==
    /\ pc = "get"
    /\ ~QueueEmpty(sim_queue)
    /\ sim' = QueueFront(sim_queue)
    /\ sim_queue' = QueueRest(sim_queue)
    /\ pc' = "gpu"
    /\ UNCHANGED <<config, probe, smi_error, sims, process_queue, gpu_memory_queue, caller,
                   free_gpu_memory, gpu_idx, sim_mem, head_process_list, workers>>

\* A query that keeps the reading the head process already holds.
Query_Cached ==
    /\ pc = "gpu"
    /\ pc' = "assign"
    /\ UNCHANGED <<config, probe, smi_error, sims, queues, caller, sim,
                   free_gpu_memory, gpu_idx, sim_mem, head_process_list,
                   workers>>

\* line 375: free_gpu_memory, gpu_idx = self.gpu_resources()
Query ==
    /\ pc = "gpu"
    /\ \E frees \in machine :
          LET r == gpu_resources(SmiOutput(frees))
          IN  /\ free_gpu_memory' = r[1]
              /\ gpu_idx' = r[2]
    /\ pc' = "assign"
    /\ UNCHANGED <<config, probe, smi_error, sims, queues, caller, sim, sim_mem,
                   head_process_list, workers>>

\* A query whose except clause swallows the error and goes on.
QueryFail_Swallowed ==
    /\ pc = "gpu"
    /\ smi_error' = TRUE
    /\ pc' = "assign"
    /\ UNCHANGED <<config, probe, sims, queues, caller, sim, free_gpu_memory, gpu_idx,
                   sim_mem, head_process_list, workers>>

\* An error handling that puts the simulation back and takes the token out
\* before the head process ends.
QueryFail_Requeue ==
    /\ pc = "gpu"
    /\ smi_error' = TRUE
    /\ pc' = "failed"
    /\ sim_queue' = QueuePut(sim_queue, sim)
    /\ process_queue' = QueueRest(process_queue)
    /\ HeadExit
    /\ UNCHANGED <<config, probe, sims, gpu_memory_queue, caller,
                   head_process_list, workers>>

\* lines 322-325 under line 375: the device command exits with an error,
\* gpu_resources raises RuntimeError, which nothing in worker_manager catches:
\* the head process ends with the traceback.
QueryFail ==
    /\ pc = "gpu"
    /\ smi_error' = TRUE
    /\ pc' = "failed"
    /\ HeadExit
    /\ UNCHANGED <<config, probe, sims, queues, caller, head_process_list,
                   workers>>

\* line 376: sim.input_file({'CUDA_device': str(gpu_idx)})
Assign ==
    /\ pc = "assign"
    /\ sims' = [sims EXCEPT ![sim].CUDA_device = gpu_idx]
    /\ pc' = "spawn"
    /\ UNCHANGED <<config, probe, smi_error, queues, caller, sim, free_gpu_memory,
                   gpu_idx, sim_mem, head_process_list, workers>>

\* lines 377-379: start the worker and append it to the list
Spawn ==
    /\ pc = "spawn"
    /\ wpc' = [wpc EXCEPT ![sim] = "probe"]
    /\ head_process_list' = Append(head_process_list, sim)
    /\ pc' = "recv"
    /\ UNCHANGED <<config, probe, smi_error, sims, queues, caller, sim,
                   free_gpu_memory, gpu_idx, sim_mem>>

\* A receive that does not wait: get_nowait with the Empty error swallowed.
Receive_NoWait ==
    /\ pc = "recv"
    /\ sim_mem' = IF QueueEmpty(gpu_memory_queue) THEN sim_mem
                  ELSE QueueFront(gpu_memory_queue)
    /\ gpu_memory_queue' = IF QueueEmpty(gpu_memory_queue) THEN gpu_memory_queue
                           ELSE QueueRest(gpu_memory_queue)
    /\ pc' = "if"
    /\ UNCHANGED <<config, probe, smi_error, sims, sim_queue, process_queue, caller, sim,
                   free_gpu_memory, gpu_idx, head_process_list, workers>>

\* line 380: sim_mem = self.gpu_memory_queue.get(), blocking while empty
Receive ==
    /\ pc = "recv"
    /\ ~QueueEmpty(gpu_memory_queue)
    /\ sim_mem' = QueueFront(gpu_memory_queue)
    /\ gpu_memory_queue' = QueueRest(gpu_memory_queue)
    /\ pc' = "if"
    /\ UNCHANGED <<config, probe, smi_error, sims, sim_queue, process_queue, caller, sim,
                   free_gpu_memory, gpu_idx, head_process_list, workers>>

\* A head process that does not block on gpu memory.
HeadroomTest_NoBlock ==
    /\ pc = "if"
    /\ pc' = "while"
    /\ UNCHANGED <<config, probe, smi_error, sims, queues, caller, sim, free_gpu_memory, gpu_idx,
                   sim_mem, head_process_list, workers>>

\* line 381: if free_gpu_memory < (3 * sim_mem)
HeadroomTest ==
    /\ pc = "if"
    /\ pc' = IF MemoryShort(free_gpu_memory, sim_mem) THEN "wait" ELSE "while"
    /\ UNCHANGED <<config, probe, smi_error, sims, queues, caller, sim, free_gpu_memory, gpu_idx,
                   sim_mem, head_process_list, workers>>

\* A wait loop that writes the device of each new reading to the simulation.
WaitQuery_Rebind ==
    /\ pc = "wait"
    /\ MemoryShort(free_gpu_memory, sim_mem)
    /\ \E frees \in machine :
          LET r == gpu_resources(SmiOutput(frees))
          IN  /\ free_gpu_memory' = r[1]
              /\ gpu_idx' = r[2]
              /\ sims' = [sims EXCEPT ![sim].CUDA_device = r[2]]
    /\ UNCHANGED <<config, probe, smi_error, queues, caller, pc, sim, sim_mem,
                   head_process_list, workers>>

\* lines 383-386: one turn of the wait loop that queries again and sleeps
WaitQuery ==
    /\ pc = "wait"
    /\ MemoryShort(free_gpu_memory, sim_mem)
    /\ \E frees \in machine :
          LET r == gpu_resources(SmiOutput(frees))
          IN  /\ free_gpu_memory' = r[1]
              /\ gpu_idx' = r[2]
    /\ UNCHANGED <<config, probe, smi_error, sims, queues, caller, pc, sim, sim_mem,
                   head_process_list, workers>>

\* lines 322-325 under line 385: the same error inside the wait loop.
WaitQueryFail ==
    /\ pc = "wait"
    /\ MemoryShort(free_gpu_memory, sim_mem)
    /\ smi_error' = TRUE
    /\ pc' = "failed"
    /\ HeadExit
    /\ UNCHANGED <<config, probe, sims, queues, caller, head_process_list,
                   workers>>

\* A wait loop that leaves after its sleep whatever the last reading was.
WaitExit_Unchecked ==
    /\ pc = "wait"
    /\ pc' = "while"
    /\ UNCHANGED <<config, probe, smi_error, sims, queues, caller, sim, free_gpu_memory, gpu_idx,
                   sim_mem, head_process_list, workers>>

\* lines 387-389: the turn that finds the memory freed and leaves the loop
WaitExit ==
    /\ pc = "wait"
    /\ ~MemoryShort(free_gpu_memory, sim_mem)
    /\ pc' = "while"
    /\ UNCHANGED <<config, probe, smi_error, sims, queues, caller, sim, free_gpu_memory, gpu_idx,
                   sim_mem, head_process_list, workers>>

\* A drain that reports without polling process_queue.
DrainPoll_NoPoll ==
    /\ pc = "drain"
    /\ pc' = "report"
    /\ UNCHANGED <<config, probe, smi_error, sims, queues, caller, sim, free_gpu_memory, gpu_idx,
                   sim_mem, head_process_list, workers>>

\* A drain that looks at sim_queue again and goes back to the admission.
DrainPoll_Readmit ==
    /\ pc = "drain"
    /\ pc' = IF ~QueueEmpty(sim_queue) THEN "put"
             ELSE IF QueueEmpty(process_queue) THEN "report" ELSE "drain"
    /\ UNCHANGED <<config, probe, smi_error, sims, queues, caller, sim, free_gpu_memory, gpu_idx,
                   sim_mem, head_process_list, workers>>

\* lines 390-391: while not self.process_queue.empty(): sleep(1)
DrainPoll ==
    /\ pc = "drain"
    /\ pc' = IF QueueEmpty(process_queue) THEN "report" ELSE "drain"
    /\ UNCHANGED <<config, probe, smi_error, sims, queues, caller, sim, free_gpu_memory, gpu_idx,
                   sim_mem, head_process_list, workers>>

\* line 392: print('All queued simulations finished')
Report ==
    /\ pc = "report"
    /\ pc' = "done"
    /\ HeadExit
    /\ UNCHANGED <<config, probe, smi_error, sims, queues, caller, head_process_list,
                   workers>>

worker_manager ==
    \/ LoopTest
    \/ Acquire
    \/ Dequeue
    \/ Query
    \/ QueryFail
    \/ Assign
    \/ Spawn
    \/ Receive
    \/ HeadroomTest
    \/ WaitQuery
    \/ WaitQueryFail
    \/ WaitExit
    \/ DrainPoll
    \/ Report

\* ----------------------------------------------------------------- worker_job

\* A probe that reads the wrong field of the engine's diagnostics.
get_sim_mem_WrongField(j) == 0

\* get_sim_mem: the zero-step run of the engine reports the footprint.
get_sim_mem(j) == sims[j].mem

\* A worker that goes on to its run without publishing its sample.
Publish_Skipped(j) ==
    /\ wpc[j] = "probe"
    /\ wpc' = [wpc EXCEPT ![j] = "run"]
    /\ UNCHANGED <<config, probe, smi_error, sims, queues, caller, head>>

\* A worker that publishes its sample and holds its run until the head
\* process has decided on the headroom.
Publish_Held(j) ==
    /\ wpc[j] = "probe"
    /\ ~QueueFull(gpu_memory_queue, 1)
    /\ gpu_memory_queue' = QueuePut(gpu_memory_queue, get_sim_mem(j))
    /\ wpc' = [wpc EXCEPT ![j] = "held"]
    /\ UNCHANGED <<config, probe, smi_error, sims, sim_queue, process_queue, caller, head>>

\* lines 396-397: sim_mem = self.get_sim_mem(sim, gpu_idx), then
\* self.gpu_memory_queue.put(sim_mem), blocking while the queue is full
Publish(j) ==
    /\ wpc[j] = "probe"
    /\ ~QueueFull(gpu_memory_queue, 1)
    /\ gpu_memory_queue' = QueuePut(gpu_memory_queue, get_sim_mem(j))
    /\ wpc' = [wpc EXCEPT ![j] = "run"]
    /\ UNCHANGED <<config, probe, smi_error, sims, sim_queue, process_queue, caller, head>>

\* A worker that ends without taking its token out of process_queue.
Execute_NoRelease(j) ==
    /\ wpc[j] = "run"
    /\ sims' = [sims EXCEPT ![j].runs = @ + 1]
    /\ wpc' = [wpc EXCEPT ![j] = "exited"]
    /\ UNCHANGED <<config, probe, smi_error, queues, caller, head>>

\* lines 398-399: sim.oxpy_run.run(subprocess=False), the run of the full step
\* count, then self.process_queue.get()
Execute(j) ==
    /\ wpc[j] = "run"
    /\ ~QueueEmpty(process_queue)
    /\ sims' = [sims EXCEPT ![j].runs = @ + 1]
    /\ process_queue' = QueueRest(process_queue)
    /\ wpc' = [wpc EXCEPT ![j] = "exited"]
    /\ UNCHANGED <<config, probe, smi_error, sim_queue, gpu_memory_queue, caller, head>>

worker_job(j) ==
    \/ Publish(j)
    \/ Execute(j)

\* A worker whose death takes a token out of process_queue, as a finally
\* clause around lines 396-398 would.
Crash_Releasing(j) ==
    /\ Live(wpc[j])
    /\ Cardinality({k \in JobIds : wpc[k] = "crashed"}) < MaxCrashes
    /\ ~QueueEmpty(process_queue)
    /\ process_queue' = QueueRest(process_queue)
    /\ wpc' = [wpc EXCEPT ![j] = "crashed"]
    /\ UNCHANGED <<config, probe, smi_error, sims, sim_queue, gpu_memory_queue, caller,
                   head>>

\* A worker whose death in the probe is reported to the head process, as an
\* except clause around line 396 that puts a sample of 0 would.
Crash_Reporting(j) ==
    /\ Live(wpc[j])
    /\ Cardinality({k \in JobIds : wpc[k] = "crashed"}) < MaxCrashes
    /\ wpc' = [wpc EXCEPT ![j] = "crashed"]
    /\ gpu_memory_queue' = IF wpc[j] = "probe" /\ ~QueueFull(gpu_memory_queue, 1)
                           THEN QueuePut(gpu_memory_queue, 0)
                           ELSE gpu_memory_queue
    /\ UNCHANGED <<config, probe, smi_error, sims, sim_queue, process_queue,
                   caller, head>>

\* lines 396-398 have no try: an exception of the engine or of the probe, or
\* a signal from outside, ends the worker process where it is, before line
\* 397 or before line 399.
Crash(j) ==
    /\ Live(wpc[j])
    /\ Cardinality({k \in JobIds : wpc[k] = "crashed"}) < MaxCrashes
    /\ wpc' = [wpc EXCEPT ![j] = "crashed"]
    /\ UNCHANGED <<config, probe, smi_error, sims, queues, caller, head>>

\* ---------------------------------------------------------------------- Spec

\* The caller calls run as the signature of line 401 defaults it, join=False,
\* and is never inside a blocking call.
Next ==
    \/ \E mem \in Footprints : queue_sim(mem)
    \/ run(FALSE)
    \/ terminate_all
    \/ worker_manager
    \/ \E j \in JobIds : worker_job(j)
    \/ \E j \in JobIds : Crash(j)

Spec == Init /\ [][Next]_vars

\* The caller may also pass join=True and block in p.join() (lines 406-407).
JoinNext ==
    \/ Next
    \/ run(TRUE)
    \/ JoinReturn

JoinSpec == Init /\ [][JoinNext]_vars

\* ------------------------------------------------- get_sim_mem, line by line

\* Input.modify_input: every key of parameters is set, then write_input
\* writes the whole dictionary to input.json.
modify_input(input, parameters) ==
    [k \in DOMAIN input |-> IF k \in DOMAIN parameters THEN parameters[k] ELSE input[k]]

\* lines 342-343: steps and last_conf_file keep the values of the input
ProbeSave ==
    /\ probe.pc = "idle"
    /\ Len(probe.returned) < MaxProbes
    /\ probe' = [probe EXCEPT !.steps = probe.input.steps,
                              !.last_conf_file = probe.input.lastconf_file,
                              !.pc = "zero"]
    /\ UNCHANGED scheduler

\* line 344: sim.input_file({'lastconf_file':'temp', 'steps':'0'})
ProbeZero ==
    /\ probe.pc = "zero"
    /\ LET input == modify_input(probe.input,
                        [lastconf_file |-> StrValue("temp"), steps |-> StrValue("0")])
       IN  probe' = [probe EXCEPT !.input = input, !.json = input, !.pc = "run"]
    /\ UNCHANGED scheduler

\* A run whose diagnostics are parsed at once, before the input is restored.
ProbeRun_ParseFirst ==
    /\ probe.pc = "run"
    /\ \E out \in {EngineOutput(probe.mem), EngineOutputNoMemory} :
          probe' = [probe EXCEPT !.ran = Append(@, probe.json.steps.text),
                                 !.files = @ \cup {probe.json.lastconf_file.text},
                                 !.out = out,
                                 !.pc = IF HasWord(out, "memory:") THEN "restore"
                                        ELSE "raised"]
    /\ UNCHANGED scheduler

\* line 345: the engine runs the steps of input.json, writes its last
\* configuration to the lastconf_file of input.json and prints its
\* diagnostics, with or without the word 'memory:'
ProbeRun ==
    /\ probe.pc = "run"
    /\ \E out \in {EngineOutput(probe.mem), EngineOutputNoMemory} :
          probe' = [probe EXCEPT !.ran = Append(@, probe.json.steps.text),
                                 !.files = @ \cup {probe.json.lastconf_file.text},
                                 !.out = out,
                                 !.pc = "restore"]
    /\ UNCHANGED scheduler

\* A restore that leaves 'steps' at the '0' of the probe.
ProbeRestore_NoSteps ==
    /\ probe.pc = "restore"
    /\ LET input == modify_input(probe.input,
                        [lastconf_file |-> Format(probe.last_conf_file)])
       IN  probe' = [probe EXCEPT !.input = input, !.json = input, !.pc = "parse"]
    /\ UNCHANGED scheduler

\* line 346: sim.input_file({'lastconf_file':f'{last_conf_file}',
\* 'steps':f'{steps}'})
ProbeRestore ==
    /\ probe.pc = "restore"
    /\ LET input == modify_input(probe.input,
                        [lastconf_file |-> Format(probe.last_conf_file),
                         steps |-> Format(probe.steps)])
       IN  probe' = [probe EXCEPT !.input = input, !.json = input, !.pc = "parse"]
    /\ UNCHANGED scheduler

\* lines 348-355: the word after 'memory:' is read, ./temp is removed and
\* the number of the word is returned
ProbeReturn ==
    /\ probe.pc = "parse"
    /\ HasWord(probe.out, "memory:")
    /\ LET mem_at == WordIndex(probe.out, "memory:")
           mem_word == probe.out[mem_at + 1]
       IN  probe' = [probe EXCEPT !.files = @ \ {"temp"},
                                  !.returned = Append(@, mem_word.value),
                                  !.pc = "idle"]
    /\ UNCHANGED scheduler

\* line 349 without the word: err_split.index raises ValueError, which ends
\* get_sim_mem there; lines 350-355 are not run.
ProbeParseFail ==
    /\ probe.pc = "parse"
    /\ ~HasWord(probe.out, "memory:")
    /\ probe' = [probe EXCEPT !.pc = "raised"]
    /\ UNCHANGED scheduler

\* One simulation, prepared with any of the inputs, on which get_sim_mem is
\* called up to MaxProbes times.
ProbeInit ==
    /\ probe \in {ProbeStart(mem, steps, lastconf_file) :
                     mem \in Footprints, steps \in StepsValues,
                     lastconf_file \in LastconfValues}
    /\ n_processes = 1
    /\ machine = { <<10000>> }
    /\ smi_error = FALSE
    /\ sims = <<>>
    /\ sim_queue = <<>>
    /\ process_queue = <<>>
    /\ gpu_memory_queue = <<>>
    /\ worker_process_list = <<>>
    /\ manager_process = "unset"
    /\ caller_pc = "idle"
    /\ pc = "off"
    /\ sim = 0
    /\ free_gpu_memory = 0
    /\ gpu_idx = 0
    /\ sim_mem = 0
    /\ head_process_list = <<>>
    /\ wpc = [j \in JobIds |-> "none"]

ProbeNext ==
    \/ ProbeSave
    \/ ProbeZero
    \/ ProbeRun
    \/ ProbeRestore
    \/ ProbeReturn
    \/ ProbeParseFail

ProbeSpec == ProbeInit /\ [][ProbeNext]_vars

\* The free memory one device may report.
FreeValues == {4000, 9000, 15000}

\* Every answer of the device command for 1 to MaxDevices devices.
FreeLists == UNION {[1..n -> FreeValues] : n \in 1..MaxDevices}

\* The manager built with one slot on a machine whose device command gives
\* one answer, any of FreeLists.
MonitorInit ==
    /\ probe = ProbeIdle
    /\ n_processes = 1
    /\ machine \in {{frees} : frees \in FreeLists}
    /\ smi_error = FALSE
    /\ sims = <<>>
    /\ sim_queue = <<>>
    /\ process_queue = <<>>
    /\ gpu_memory_queue = <<>>
    /\ worker_process_list = <<>>
    /\ manager_process = "unset"
    /\ caller_pc = "idle"
    /\ pc = "off"
    /\ sim = 0
    /\ free_gpu_memory = 0
    /\ gpu_idx = 0
    /\ sim_mem = 0
    /\ head_process_list = <<>>
    /\ wpc = [j \in JobIds |-> "none"]

\* One simulation is queued and the head process goes as far as its query of
\* the device command.
MonitorNext ==
    \/ (sims = <<>> /\ queue_sim(1000))
    \/ (sims # <<>> /\ run(FALSE))
    \/ LoopTest
    \/ Acquire
    \/ Dequeue
    \/ Query

MonitorSpec == MonitorInit /\ [][MonitorNext]_vars

\* The operating system schedules every process that can take a step: the
\* head process and each worker process.  No fairness makes the device
\* command fail.
FairSpec ==
    /\ Spec
    /\ WF_vars(worker_manager /\ ~smi_error')
    /\ \A j \in JobIds : WF_vars(worker_job(j))

\* ------------------------------------------------ a run without any failure

\* worker_manager when the device command never fails.
LiveHead ==
    \/ LoopTest
    \/ Acquire
    \/ Dequeue
    \/ Query
    \/ Assign
    \/ Spawn
    \/ Receive
    \/ HeadroomTest
    \/ WaitQuery
    \/ WaitExit
    \/ DrainPoll
    \/ Report

\* The caller queues all its simulations, then calls run and nothing else;
\* no worker dies and the device command does not fail.
LiveNext ==
    \/ (pc = "off" /\ \E mem \in Footprints : queue_sim(mem))
    \/ run(FALSE)
    \/ LiveHead
    \/ \E j \in JobIds : worker_job(j)

\* The operating system schedules the head process and every worker, and
\* every run of the engine ends.
LiveSpec ==
    /\ Init
    /\ [][LiveNext]_vars
    /\ WF_vars(LiveHead)
    /\ \A j \in JobIds : WF_vars(worker_job(j))

\* ------------------------------------------------ run() after terminate_all

\* run() called again once terminate_all has returned: lines 404-405 fork a
\* new head process from the caller, whose worker_process_list is the list
\* the new head process starts with, and line 408 stores the new process
\* ("restarted": another Process object than the first one).
\* The queues of the manager are those of __init__, with what is in them.
run_again ==
    /\ caller_pc = "idle"
    /\ manager_process = "terminated"
    /\ ~HeadRunning
    /\ pc' = "while"
    /\ head_process_list' = worker_process_list
    /\ manager_process' = "restarted"
    /\ UNCHANGED <<config, probe, smi_error, sims, queues, worker_process_list,
                   caller_pc, sim, free_gpu_memory, gpu_idx, sim_mem, workers>>

\* The footprints of the simulations queued here: one that every reading
\* admits and one that a reading of 9000 or 10000 sends to the wait loop.
RerunFootprints == {1000, 4000}

\* The caller queues its simulations, runs, terminates that run and runs
\* again; no worker dies of itself and the device command does not fail.
RerunNext ==
    \/ (manager_process = "unset" /\ \E mem \in RerunFootprints : queue_sim(mem))
    \/ run(FALSE)
    \/ (manager_process = "started" /\ terminate_all)
    \/ run_again
    \/ LiveHead
    \/ \E j \in JobIds : worker_job(j)

RerunSpec == Init /\ [][RerunNext]_vars

\* ------------------------------------------- the default value of n_processes

\* Largest number of CPUs the calling process may run on.
MaxCpus == 3

\* line 287: n_processes=len(os.sched_getaffinity(0))-2
DefaultProcesses(cpus) == cpus - 2

\* The manager built without an argument on a host with 1 to MaxCpus usable
\* CPUs.
DefaultInit ==
    /\ probe = ProbeIdle
    /\ n_processes \in {DefaultProcesses(cpus) : cpus \in 1..MaxCpus}
    /\ machine \in Machines
    /\ smi_error = FALSE
    /\ sims = <<>>
    /\ sim_queue = <<>>
    /\ process_queue = <<>>
    /\ gpu_memory_queue = <<>>
    /\ worker_process_list = <<>>
    /\ manager_process = "unset"
    /\ caller_pc = "idle"
    /\ pc = "off"
    /\ sim = 0
    /\ free_gpu_memory = 0
    /\ gpu_idx = 0
    /\ sim_mem = 0
    /\ head_process_list = <<>>
    /\ wpc = [j \in JobIds |-> "none"]

DefaultSpec == DefaultInit /\ [][Next]_vars

\* ------------------------------------------------------------------- claims

\* The simulations the head process has started a worker for.
Launched == Range(head_process_list)

\* Launched simulations whose worker has not taken its token back out.
Unreleased == {j \in Launched : wpc[j] # "exited"}

\* The workers that died before taking a token out of process_queue.
Dead == {j \in JobIds : wpc[j] \in {"crashed", "killed"}}

\* Simulations taken out of sim_queue.
Dequeued == {j \in DOMAIN sims : j \notin Range(sim_queue)}

\* C1: with n_processes >= 1, process_queue never holds more than n_processes
\* tokens, and never more than n_processes workers are launched and not yet
\* released.
C1_SlotCap ==
    n_processes >= 1 =>
        /\ Len(process_queue) <= n_processes
        /\ Cardinality(Unreleased) <= n_processes

\* C1 witness: the pool is full with two running workers and the head process
\* is blocked in put with a simulation still queued.
C1_Witness ==
    /\ n_processes = 2
    /\ Len(process_queue) = 2
    /\ Cardinality({j \in JobIds : wpc[j] = "run"}) = 2
    /\ pc = "put"
    /\ sim_queue # <<>>

\* C2: simulations are dequeued and launched in submission order: when a
\* simulation has left sim_queue, every simulation submitted before it has
\* been launched, and the launch list is in submission order.
C2_LaunchOrder ==
    /\ \A a, b \in DOMAIN sims : (a < b /\ b \in Dequeued) => a \in Launched
    /\ \A i, k \in DOMAIN head_process_list :
          i < k => head_process_list[i] < head_process_list[k]

\* C2 witness: three simulations launched in order although the second
\* finished before the first.
C2_Witness ==
    /\ head_process_list = <<1, 2, 3>>
    /\ wpc[2] = "exited"
    /\ wpc[1] = "run"

\* C3: a simulation is dequeued at most once (once out of sim_queue it is
\* never in it again, and sim_queue holds it once), has at most one worker,
\* whose full run happens at most once, and no worker takes more than its own
\* token: the tokens left are never fewer than the unreleased workers.
C3_AtMostOnce ==
    /\ \A i, k \in DOMAIN sim_queue : i # k => sim_queue[i] # sim_queue[k]
    /\ \A i, k \in DOMAIN head_process_list :
          i # k => head_process_list[i] # head_process_list[k]
    /\ \A j \in Range(sim_queue) :
          j \notin Launched /\ ~(pc \in {"gpu", "assign", "spawn"} /\ sim = j)
    /\ \A j \in DOMAIN sims :
          /\ sims[j].runs <= 1
          /\ sims[j].runs = 1 <=> wpc[j] = "exited"
    /\ Len(process_queue) >= Cardinality(Unreleased)

\* C3 witness: a worker has done its one run and released while a later
\* simulation is being launched.
C3_Witness ==
    /\ Len(head_process_list) = 2
    /\ sims[1].runs = 1
    /\ wpc[1] = "exited"
    /\ pc = "spawn"
    /\ sim = 3

\* C4 as stated: at every launch after the first, the reading the head
\* process holds when it spawns the worker (the query of line 375 of that
\* iteration) is at least 3 times the sample of the previous launch.
C4_ReadingAtSpawn ==
    (pc = "spawn" /\ Len(head_process_list) >= 1) =>
        free_gpu_memory >= 3 * sim_mem

\* C4 amended: at every launch after the first, the reading the head process
\* holds when it starts the iteration (tests sim_queue, puts the token, gets
\* the simulation), which is the last reading of the previous iteration, is
\* at least 3 times the sample of the previous launch.
C4_ReadingBeforeQuery ==
    (pc \in {"while", "put", "get"} /\ Len(head_process_list) >= 1) =>
        free_gpu_memory >= 3 * sim_mem

\* C4 witness: the second launch starts with the reading 15000 that ended the
\* wait for the first simulation's sample of 4000.
C4_Witness ==
    /\ pc = "get"
    /\ Len(head_process_list) = 1
    /\ sim_mem = 4000
    /\ free_gpu_memory = 15000

\* The scenario of C5: two slots, one device always reporting 10000 free (the
\* device command has never failed), and the simulations queued so far are
\* J1, J2, J3 with samples 1000, 4000, 500.
C5_Scenario ==
    /\ n_processes = 2
    /\ machine = { <<10000>> }
    /\ ~smi_error
    /\ Len(sims) <= 3
    /\ \A j \in DOMAIN sims : sims[j].mem = <<1000, 4000, 500>>[j]

\* J3 has been launched while J1 and J2 both hold their slots.
C5_ThreeAtOnce ==
    /\ wpc[3] # "none"
    /\ wpc[1] \in {"probe", "run"}
    /\ wpc[2] \in {"probe", "run"}

\* C5 as stated: in the scenario J1 and J2 are admitted before any headroom
\* wait, J3 is not admitted while J1 and J2 both hold slots, and once J1 or J2
\* has released its slot no headroom wait stands between J3 and its
\* admission.
C5_NoHeadroomWait ==
    C5_Scenario =>
        /\ pc = "wait" => 2 \in Launched
        /\ ~C5_ThreeAtOnce
        /\ (3 \in Range(sim_queue) /\ \E j \in {1, 2} : wpc[j] = "exited") =>
              pc # "wait"

\* C5 amended: in the scenario J1 and J2 are admitted before any headroom
\* wait and J3 is not admitted while J1 and J2 both hold slots; J2's sample
\* (3 * 4000 > 10000) puts the head process in the wait loop, which it never
\* leaves, so J3 is never admitted, whether or not J1 or J2 has released.
C5_StuckAfterSecond ==
    C5_Scenario =>
        /\ pc = "wait" => (sim = 2 /\ head_process_list = <<1, 2>>)
        /\ 2 \in Launched =>
              \/ sim = 2 /\ pc \in {"recv", "if", "wait"}
              \/ pc = "terminated"
        /\ wpc[3] = "none"
        /\ ~C5_ThreeAtOnce

\* C5 witness: J1 has released its slot, J3 is queued, and the head process
\* is still in the wait loop entered on J2's sample.
C5_Witness ==
    /\ C5_Scenario
    /\ sim_queue = <<3>>
    /\ wpc[1] = "exited"
    /\ wpc[2] = "run"
    /\ Len(process_queue) = 1
    /\ pc = "wait"

\* The largest free memory of one answer of the device command.
C6_Reading(frees) == CHOOSE x \in Range(frees) : \A y \in Range(frees) : y <= x

\* C6: from the headroom test the head process enters the wait loop exactly
\* when its reading is below 3 times the sample; in the loop the reading
\* changes only to what a new query returns while the sample stays; and it
\* leaves the loop (to the test of sim_queue, hence to the next admission or
\* the drain poll) only with a reading of at least 3 times the sample; the
\* head process otherwise leaves it only by dying.
C6_WaitLoop ==
    [][ /\ (pc = "if" /\ pc' \notin {"if", "failed", "terminated"}) =>
              /\ pc' = "wait" <=> free_gpu_memory < 3 * sim_mem
              /\ pc' \in {"wait", "while"}
        /\ (pc = "wait" /\ pc' \notin {"wait", "failed", "terminated"}) =>
              /\ free_gpu_memory >= 3 * sim_mem
              /\ pc' = "while"
        /\ (pc = "wait" /\ pc' = "wait") =>
              /\ sim_mem' = sim_mem
              /\ free_gpu_memory' # free_gpu_memory =>
                    /\ free_gpu_memory < 3 * sim_mem
                    /\ \E frees \in machine : free_gpu_memory' = C6_Reading(frees)
      ]_vars

\* C6 witness: sample 4000 met a reading of 9000; a later query of the wait
\* loop has returned 15000 and the loop is about to end.
C6_Witness ==
    /\ pc = "wait"
    /\ sim_mem = 4000
    /\ free_gpu_memory = 15000

\* Every launched worker has taken its token back out of process_queue.
AllLaunchedReleased == \A j \in Launched : wpc[j] = "exited"

\* C7 as stated: when sim_queue is empty and every launched worker has
\* released its token, the head process goes on to report completion with no
\* further event needed: that condition never lasts for ever with the head
\* process still running and unreported.
C7_DrainedLeadsToReport ==
    []<>~(Len(sim_queue) = 0 /\ AllLaunchedReleased /\ HeadRunning)

\* C7 amended: whenever the head process is in its drain poll (it has left
\* the admission loop on finding sim_queue empty) and every launched worker
\* has released its token, process_queue holds no token, and the next drain
\* poll of the head process ends the polling and goes on to report
\* 'All queued simulations finished'.
C7_DrainPollReports ==
    /\ [](pc = "drain" /\ AllLaunchedReleased => Len(process_queue) = 0)
    /\ [][ /\ (pc = "drain" /\ AllLaunchedReleased /\ DrainPoll) => pc' = "report"
           /\ (pc = "report" /\ pc' \notin {"report", "terminated"}) => pc' = "done"
         ]_vars

\* C7 witness: the head process polls the drain after both launched workers
\* have released.
C7_Witness ==
    /\ pc = "drain"
    /\ Len(head_process_list) = 2
    /\ AllLaunchedReleased

\* C8: the head process reports completion only with process_queue empty,
\* every launched worker released and every dequeued simulation launched; it
\* goes to the report only from a drain poll that found process_queue empty,
\* and to the drain poll only from a test that found sim_queue empty.
C8_ReportOnlyDrained ==
    /\ [](pc \in {"report", "done"} =>
            /\ Len(process_queue) = 0
            /\ \A j \in Launched : wpc[j] = "exited"
            /\ Dequeued = Launched)
    /\ [][ /\ (pc' = "report" /\ pc # "report") =>
                 (pc = "drain" /\ Len(process_queue) = 0)
           /\ (pc' = "drain" /\ pc # "drain") =>
                 (pc = "while" /\ Len(sim_queue) = 0)
           /\ (pc' = "done" /\ pc # "done") => pc = "report"
         ]_vars

\* C8 witness: completion is reported after three workers were launched and
\* have released.
C8_Witness ==
    /\ pc = "done"
    /\ Len(head_process_list) = 3

\* C9 as stated: once terminate_all() has returned, no worker process is
\* still running.
C9_TerminateStopsWorkers ==
    manager_process = "terminated" =>
        \A j \in JobIds : wpc[j] \notin {"probe", "run"}

\* The launched workers that have put their sample in gpu_memory_queue.
Published == {j \in Launched : wpc[j] # "probe"}

\* The samples the head process has taken out of gpu_memory_queue.
Received == Len(head_process_list) - (IF pc = "recv" THEN 1 ELSE 0)

\* C10: while the head process lives and no worker has died,
\* gpu_memory_queue holds at most one sample, and only between the publish of
\* the last launched worker and the receive of the head process; the samples
\* published are the samples received plus the one in the queue; and the
\* sample the head process holds after its receive is the footprint of the
\* simulation it has just launched.
C10_OneSamplePerLaunch ==
    (pc # "terminated" /\ Dead = {}) =>
        /\ Len(gpu_memory_queue) <= 1
        /\ Len(gpu_memory_queue) = 1 =>
              /\ pc = "recv"
              /\ sim \in Published
              /\ gpu_memory_queue[1] = sims[sim].mem
        /\ Cardinality(Published) = Received + Len(gpu_memory_queue)
        /\ pc \in {"if", "wait"} =>
              /\ sim = head_process_list[Len(head_process_list)]
              /\ sim_mem = sims[sim].mem

\* C10 witness: the head process holds the sample of the second simulation,
\* which differs from the first one's, while the first worker still runs.
C10_Witness ==
    /\ pc = "if"
    /\ sim = 2
    /\ sims[1].mem # sims[2].mem
    /\ sim_mem = sims[2].mem
    /\ wpc[1] = "run"


\* The workers between their start and the publishing of their sample.
Probing == {j \in JobIds : wpc[j] = "probe"}

\* C11: at most one worker is between its start and the publishing of its
\* sample, gpu_memory_queue never holds more than one sample, and a worker
\* that has its sample to publish finds gpu_memory_queue empty, so that its
\* put does not block.
C11_OneProbe ==
    /\ Cardinality(Probing) <= 1
    /\ Len(gpu_memory_queue) <= 1
    /\ \A j \in Probing :
          /\ Len(gpu_memory_queue) = 0
          /\ ENABLED Publish(j)

\* C11 witness: the second worker is in its probe while the first one runs,
\* and the head process waits for the sample.
C11_Witness ==
    /\ wpc[1] = "run"
    /\ wpc[2] = "probe"
    /\ pc = "recv"
    /\ Len(gpu_memory_queue) = 0


\* C12: once the device command has failed, at the device assignment or
\* inside the wait loop, the head process is dead of the error and stays so:
\* it queries no more, takes nothing more out of sim_queue, starts no worker
\* and never reaches the completion report.
C12_QueryErrorEnds ==
    /\ [](smi_error => pc = "failed")
    /\ [][ /\ (smi_error' /\ ~smi_error) => pc \in {"gpu", "wait"}
           /\ pc = "failed" =>
                 /\ pc' = "failed"
                 /\ free_gpu_memory' = free_gpu_memory
                 /\ gpu_idx' = gpu_idx
                 /\ \A j \in DOMAIN sims :
                       sims'[j].CUDA_device = sims[j].CUDA_device
                 /\ Len(sim_queue') >= Len(sim_queue)
                 /\ head_process_list' = head_process_list
                 /\ \A j \in JobIds : wpc[j] = "none" => wpc'[j] = "none"
         ]_vars

\* C12 witness: the query for the second simulation has failed; the
\* simulation was dequeued but has no worker, a third one stays queued and the
\* first worker still runs.
C12_Witness ==
    /\ smi_error
    /\ pc = "failed"
    /\ head_process_list = <<1>>
    /\ 2 \notin Range(sim_queue)
    /\ wpc[2] = "none"
    /\ wpc[1] = "run"
    /\ sim_queue = <<3>>


\* C13: the token of a worker that died between its start and its release
\* stays in process_queue: process_queue holds at least one token per dead
\* worker, is therefore never empty again, and the head process is never at
\* the completion report.
C13_CrashKeepsToken ==
    /\ Len(process_queue) >= Cardinality(Dead)
    /\ Dead # {} =>
          /\ ~QueueEmpty(process_queue)
          /\ pc \notin {"report", "done"}

\* C13 witness: the first worker died in its run, the second one has
\* released, and the head process polls a process_queue that still holds the
\* dead worker's token.
C13_Witness ==
    /\ wpc[1] = "crashed"
    /\ wpc[2] = "exited"
    /\ sim_queue = <<>>
    /\ pc = "drain"
    /\ Len(process_queue) = 1


\* C15: run(join=True) returns only when the head process has ended, and if
\* the head process ended by reporting completion, every simulation queued
\* before the call has had its run and released its token; while the caller
\* is in the join nothing is queued.  run(join=False) returns with the head
\* process just started: the same step leaves the queues and the workers as
\* they were.
C15_JoinWaits ==
    /\ [](caller_pc = "join" => (pc # "off" /\ manager_process = "unset"))
    /\ [](manager_process = "joined" => pc \in {"done", "failed"})
    /\ [][ /\ (caller_pc = "join" /\ caller_pc' # "join") =>
                 /\ pc \in {"done", "failed"}
                 /\ pc' = pc
                 /\ manager_process' = "joined"
                 /\ pc = "done" =>
                       /\ sim_queue = <<>>
                       /\ process_queue = <<>>
                       /\ \A j \in DOMAIN sims :
                             wpc[j] = "exited" /\ sims[j].runs = 1
           /\ caller_pc = "join" => Len(sims') = Len(sims)
           /\ (pc = "off" /\ pc' # "off") =>
                 /\ pc' = "while"
                 /\ UNCHANGED <<sims, queues, wpc>>
                 /\ caller_pc' = "idle" => manager_process' = "started"
         ]_vars

\* C15 witness: run(join=True) has returned after the three simulations
\* queued before it were run and released.
C15_Witness ==
    /\ manager_process = "joined"
    /\ pc = "done"
    /\ Len(sims) = 3
    /\ \A j \in DOMAIN sims : wpc[j] = "exited"


\* C16: a worker is started only by the head process at line 377, for the
\* simulation it holds, with the device index it holds written to that
\* simulation; the head process gets there only through, in this order, a put
\* of a token into process_queue, the get of the simulation from sim_queue
\* and a query of the device command, whose answer is the reading it holds
\* when it starts the worker.
C16_FreshQueryPerSpawn ==
    [][ /\ \A j \in JobIds : (wpc[j] = "none" /\ wpc'[j] # "none") =>
              /\ pc = "spawn" /\ pc' = "recv"
              /\ sim = j
              /\ sims[j].CUDA_device = gpu_idx
              /\ sims'[j].CUDA_device = gpu_idx
        /\ (pc' = "spawn" /\ pc # "spawn") =>
              /\ pc = "assign"
              /\ UNCHANGED <<sim, gpu_idx>>
              /\ sims'[sim].CUDA_device = gpu_idx
        /\ (pc' = "assign" /\ pc # "assign") =>
              /\ pc = "gpu"
              /\ sim' = sim
              /\ \E frees \in machine :
                    <<free_gpu_memory', gpu_idx'>> = gpu_resources(SmiOutput(frees))
        /\ (pc \in {"assign", "spawn"} /\ pc' = pc) => UNCHANGED <<sim, gpu_idx>>
        /\ (pc' = "gpu" /\ pc # "gpu") =>
              /\ pc = "get"
              /\ sim' = Head(sim_queue)
              /\ sim_queue' = Tail(sim_queue)
        /\ (pc = "gpu" /\ pc' = "gpu") => sim' = sim
        /\ (pc' = "get" /\ pc # "get") =>
              /\ pc = "put"
              /\ Len(process_queue') = Len(process_queue) + 1
      ]_vars

\* C16 witness: the wait for the first simulation (sample 4000) ended on the
\* reading 15000 of device 1; the query for the second simulation returned
\* 9000 on device 0, and the second worker was started on device 0.
C16_Witness ==
    /\ pc = "recv"
    /\ sim = 2
    /\ sims[1].mem = 4000
    /\ sim_mem = 4000
    /\ free_gpu_memory = 9000
    /\ sims[2].CUDA_device = 0
    /\ wpc[2] = "probe"


\* The state of a queued simulation: 1 Queued (in sim_queue), 2 Admitted
\* (taken out of sim_queue after the put of its token), 3 DeviceAssigned
\* (CUDA_device written; its worker, once started, is in the probe),
\* 5 Running (the worker is at line 398), 6 Released (the worker has taken a
\* token out).  4, Probed, is the publishing of the sample, the step from 3
\* to 5: line 398 follows line 397 at once.  0 is a dead worker.
JobPhase(j) ==
    IF j \in Range(sim_queue) THEN 1
    ELSE IF wpc[j] = "none" THEN (IF sims[j].CUDA_device = -1 THEN 2 ELSE 3)
    ELSE IF wpc[j] = "probe" THEN 3
    ELSE IF wpc[j] = "run" THEN 5
    ELSE IF wpc[j] = "exited" THEN 6
    ELSE 0

\* C17: a simulation is queued as Queued, and as long as its worker does not
\* die every step leaves its state or moves it to the next one: Queued to
\* Admitted, Admitted to DeviceAssigned, DeviceAssigned to Running by
\* publishing its sample (Probed), Running to Released after its one run; a
\* simulation past Queued and not yet Released has its token in
\* process_queue.
C17_JobPhases ==
    /\ [](Len(process_queue) >=
             Cardinality({j \in DOMAIN sims : JobPhase(j) \in {2, 3, 5}}))
    /\ [][ \A j \in DOMAIN sims' :
              IF j \notin DOMAIN sims THEN JobPhase(j)' = 1
              ELSE wpc'[j] # "crashed" =>
                    LET before == JobPhase(j)
                        after == JobPhase(j)'
                    IN  \/ /\ wpc'[j] = wpc[j]
                           /\ sim_queue' = sim_queue
                           /\ sims'[j] = sims[j]
                        \/ after = before
                        \/ before = 1 /\ after = 2
                        \/ before = 2 /\ after = 3
                        \/ /\ before = 3 /\ after = 5
                           /\ gpu_memory_queue' =
                                  Append(gpu_memory_queue, sims[j].mem)
                        \/ /\ before = 5 /\ after = 6
                           /\ sims[j].runs = 0 /\ sims'[j].runs = 1
         ]_vars

\* C17 witness: of three simulations the first is Released, the second
\* Running, and the third DeviceAssigned with its worker not yet started.
C17_Witness ==
    /\ Len(sims) = 3
    /\ JobPhase(1) = 6
    /\ JobPhase(2) = 5
    /\ JobPhase(3) = 3
    /\ pc = "spawn"
    /\ sim = 3


\* C18: sim_queue is shortened only by the head process at line 374, which
\* it reaches only from the put of line 373; with n_processes >= 1 tokens in
\* process_queue the head process at that put stays there (unless it is
\* terminated), sim_queue is not shortened and no worker is started, and it
\* passes the put only with fewer than n_processes tokens in process_queue,
\* that is after a worker has taken one out.
C18_AcquireBeforeDequeue ==
    [][ /\ Len(sim_queue') < Len(sim_queue) =>
              /\ pc = "get" /\ pc' = "gpu"
              /\ ~QueueEmpty(process_queue)
              /\ sim_queue' = Tail(sim_queue)
        /\ (pc' = "get" /\ pc # "get") =>
              /\ pc = "put"
              /\ n_processes >= 1 => Len(process_queue) < n_processes
              /\ process_queue' = Append(process_queue, "Simulation worker finished")
        /\ (pc = "put" /\ n_processes >= 1 /\ Len(process_queue) >= n_processes) =>
              /\ pc' \in {"put", "terminated"}
              /\ Len(sim_queue') >= Len(sim_queue)
              /\ \A j \in JobIds : wpc[j] = "none" => wpc'[j] = "none"
      ]_vars

\* C18 witness: with one slot, the head process has passed the put after the
\* first worker released and is about to take the second simulation out of
\* sim_queue.
C18_Witness ==
    /\ n_processes = 1
    /\ pc = "get"
    /\ wpc[1] = "exited"
    /\ sim_queue = <<2, 3>>
    /\ Len(process_queue) = 1


\* C19: the CUDA_device of a simulation is written only by the head process
\* at line 376, for the simulation it holds, before that simulation's worker
\* is started; the queries of the wait loop change the head process's gpu_idx
\* but no simulation's CUDA_device; and the reading the wait loop tests is
\* the largest free memory over all devices of an answer, with the index of
\* that device, whatever the device of the simulation.
C19_DeviceFixedAtSpawn ==
    /\ [](pc = "wait" =>
            \E frees \in machine :
                /\ free_gpu_memory = ListMax(frees)
                /\ gpu_idx = ListIndex(frees, ListMax(frees)))
    /\ [][ /\ \A j \in DOMAIN sims :
                 sims'[j].CUDA_device # sims[j].CUDA_device =>
                     /\ pc = "assign" /\ pc' = "spawn"
                     /\ sim = j
                     /\ wpc[j] = "none"
           /\ (pc = "wait" /\ pc' = "while") =>
                 free_gpu_memory >= HeadroomFactor * sim_mem
         ]_vars

\* C19 witness: the simulation was started on device 0; the wait loop ended
\* on an answer whose largest free memory, 15000, is on device 1, while
\* device 0 has 4000 free, less than the sample of 4000 needs.
C19_Witness ==
    /\ pc = "while"
    /\ sim_mem = 4000
    /\ sims[sim].CUDA_device = 0
    /\ gpu_idx = 1
    /\ free_gpu_memory = 15000
    /\ <<4000, 15000>> \in machine


\* C20: for every answer of the device command for one or more devices, the
\* reading the query leaves in the head process is a value of the answer that
\* no other value exceeds, with the index (counted from 0) of a device that
\* reports it, and no device of lower index reports it.
C20_MaxAndFirstIndex ==
    pc = "assign" =>
        \A frees \in machine :
            /\ \A i \in DOMAIN frees : frees[i] <= free_gpu_memory
            /\ gpu_idx + 1 \in DOMAIN frees
            /\ frees[gpu_idx + 1] = free_gpu_memory
            /\ \A i \in 1..gpu_idx : frees[i] < free_gpu_memory

\* C20 witness: of three devices the second and the third tie for the
\* largest free memory, and the query has returned index 1.
C20_Witness ==
    /\ pc = "assign"
    /\ machine = { <<4000, 15000, 15000>> }
    /\ free_gpu_memory = 15000
    /\ gpu_idx = 1


\* C14: every call of get_sim_mem on the simulation returns the same
\* footprint, the one the engine reports for it, and after each call 'steps'
\* and 'lastconf_file', in the input of the simulation and in its input.json,
\* are what they were before the first call; the engine was run for 0 steps
\* each time and ./temp is gone.
C14_ProbeIdempotent ==
    /\ \A i \in DOMAIN probe.returned : probe.returned[i] = probe.mem
    /\ \A i \in DOMAIN probe.ran : probe.ran[i] = "0"
    /\ (probe.pc = "idle" /\ Len(probe.returned) >= 1) =>
          /\ probe.input.steps = probe.before.steps
          /\ probe.input.lastconf_file = probe.before.lastconf_file
          /\ probe.json = probe.input
          /\ "temp" \notin probe.files

\* C14 witness: two calls have returned for a simulation prepared with steps
\* 1e6 and the default lastconf_file.
C14_Witness ==
    /\ probe.pc = "idle"
    /\ Len(probe.returned) = 2
    /\ probe.before.steps = StrValue("1e6")
    /\ probe.before.lastconf_file = StrValue("last_conf.dat")
    /\ probe.mem = 4000


\* The worker of the simulation the head process has just launched died
\* before it published its sample, and the head process is at the receive of
\* line 380.
ProbeFailed ==
    /\ pc = "recv"
    /\ wpc[sim] = "crashed"
    /\ QueueEmpty(gpu_memory_queue)

\* C21: the death of a worker in its probe changes nothing the head process
\* reads: no queue and no local of the head process.  The head process is
\* then blocked in the receive of line 380, where no step of it is possible;
\* it stays there unless it is terminated, takes nothing more out of
\* sim_queue and starts no worker; the dead worker's token stays in
\* process_queue and the head process is not at the completion report.
C21_ProbeFailureBlocks ==
    /\ [](ProbeFailed =>
            /\ ~ENABLED worker_manager
            /\ ~QueueEmpty(process_queue)
            /\ pc \notin {"report", "done"})
    /\ [][ /\ \A j \in JobIds : (wpc[j] = "probe" /\ wpc'[j] = "crashed") =>
                 /\ UNCHANGED <<queues, head>>
                 /\ pc # "terminated" => ProbeFailed'
           /\ ProbeFailed =>
                 /\ ProbeFailed' \/ pc' = "terminated"
                 /\ Len(sim_queue') >= Len(sim_queue)
                 /\ gpu_memory_queue' = gpu_memory_queue
                 /\ head_process_list' = head_process_list
                 /\ \A j \in JobIds : wpc[j] = "none" => wpc'[j] = "none"
         ]_vars

\* C21 witness: the second worker died in its probe; the first worker has
\* released, the third simulation is still queued, and the head process waits
\* at the receive with the dead worker's token in process_queue.
C21_Witness ==
    /\ ProbeFailed
    /\ sim = 2
    /\ wpc[1] = "exited"
    /\ sim_queue = <<3>>
    /\ Len(process_queue) = 1


\* Every queued simulation has had its one run and released its token, and
\* the head process has reported completion.
AllDone ==
    /\ pc = "done"
    /\ sim_queue = <<>>
    /\ process_queue = <<>>
    /\ \A j \in DOMAIN sims : wpc[j] = "exited" /\ sims[j].runs = 1

\* The device command does not leave the head process in the wait loop for
\* ever with readings below 3 times the sample.
MemoryFreed == []<>~(pc = "wait" /\ MemoryShort(free_gpu_memory, sim_mem))

\* C22: with n_processes >= 1, no worker dying, no failure of the device
\* command, every process scheduled and every run of the engine ending, and
\* the device command again and again giving the wait loop a reading of at
\* least 3 times the sample, a head process started on the simulations queued
\* before it leads to every one of them launched, run once and released, and
\* to the completion report.
C22_AllJobsComplete ==
    MemoryFreed => ((pc = "while" /\ n_processes >= 1) ~> AllDone)

\* C22 witness: three simulations, one of them with the sample 4000, which
\* a reading of 9000 sends to the wait loop, have all run and released with
\* two slots, and completion is reported.
C22_Witness ==
    /\ AllDone
    /\ n_processes = 2
    /\ Len(sims) = 3
    /\ sims[2].mem = 4000
    /\ <<9000, 4000>> \in machine



\* The head process has put a token for a simulation whose worker it has not
\* started yet (lines 373 to 377).
Admitting == pc \in {"get", "gpu", "assign", "spawn"}

\* C23: as long as no process has died (no worker, and the head process
\* neither of an error nor of terminate_all), process_queue holds one token
\* per worker launched and not yet released, plus one while the head process
\* is between its put of line 373 and the start of the worker; a token is
\* added only by that put, one at a time, and taken out only by a worker
\* that ends its run, one at a time.
C23_TokenConservation ==
    /\ []((Dead = {} /\ pc \notin {"failed", "terminated"}) =>
            Len(process_queue) =
                Cardinality(Unreleased) + (IF Admitting THEN 1 ELSE 0))
    /\ [][ /\ Len(process_queue') > Len(process_queue) =>
                 /\ pc = "put" /\ pc' = "get"
                 /\ Len(process_queue') = Len(process_queue) + 1
           /\ Len(process_queue') < Len(process_queue) =>
                 /\ Len(process_queue') = Len(process_queue) - 1
                 /\ \E j \in JobIds :
                       /\ wpc[j] = "run" /\ wpc'[j] = "exited"
                       /\ \A k \in JobIds \ {j} : wpc'[k] = wpc[k]
         ]_vars

\* C23 witness: two tokens, one for the first worker, which still runs, and
\* one for the third simulation, whose worker is about to be started; the
\* second worker has released.
C23_Witness ==
    /\ Len(process_queue) = 2
    /\ wpc[1] = "run"
    /\ wpc[2] = "exited"
    /\ pc = "spawn"
    /\ sim = 3



\* C24: the worker goes from the put of its sample straight to its run,
\* in one step that reads and writes nothing of the head process; when the
\* head process holds the sample (at the headroom test or in the wait loop)
\* the worker of that simulation is at its run or past it, and a worker at
\* its run can always finish it and release, wherever the head process is.
\* The head process in the wait loop takes nothing out of sim_queue and
\* starts no worker, and it leaves the loop for the test of sim_queue only.
C24_WaitDoesNotHoldJob ==
    /\ [](pc \in {"if", "wait"} => wpc[sim] \notin {"none", "probe", "held"})
    /\ [](\A j \in JobIds : wpc[j] = "run" => ENABLED Execute(j))
    /\ [][ /\ \A j \in JobIds : (wpc[j] = "probe" /\ wpc'[j] # "probe") =>
                 /\ wpc'[j] \in {"run", "crashed"}
                 /\ UNCHANGED head
                 /\ wpc'[j] = "run" =>
                       gpu_memory_queue' = Append(gpu_memory_queue, sims[j].mem)
           /\ pc = "wait" =>
                 /\ pc' \in {"wait", "while", "failed", "terminated"}
                 /\ Len(sim_queue') >= Len(sim_queue)
                 /\ \A j \in JobIds : wpc[j] = "none" => wpc'[j] = "none"
         ]_vars

\* C24 witness: the sample 4000 of the first simulation met the reading
\* 10000 and the head process is in the wait loop, while that simulation has
\* had its whole run and released its token; the second one is still queued.
C24_Witness ==
    /\ pc = "wait"
    /\ sim = 1
    /\ sim_mem = 4000
    /\ free_gpu_memory = 10000
    /\ wpc[1] = "exited"
    /\ sims[1].runs = 1
    /\ process_queue = <<>>
    /\ sim_queue = <<2>>



\* The worker processes that are running.
LiveWorkers == {j \in JobIds : Live(wpc[j])}

\* The tokens of process_queue that no running worker will take out and that
\* the head process has not put for a worker it is about to start.
StaleTokens ==
    Len(process_queue) - Cardinality(LiveWorkers) - (IF Admitting THEN 1 ELSE 0)

\* The step in which terminate_all() ends a run.
TerminateStep == manager_process' = "terminated" /\ manager_process # "terminated"

C26_UnboundedPool ==
    n_processes <= 0 =>
        /\ ~QueueFull(process_queue, n_processes)
        /\ pc = "put" => ENABLED Acquire
        /\ Len(process_queue) >= Cardinality(LiveWorkers)

\* C26 witness: on a host with one CPU n_processes is -1; three workers run
\* at once, each with its token in process_queue, and the head process is in
\* its drain poll.
C26_Witness ==
    /\ n_processes = DefaultProcesses(1)
    /\ n_processes < 0
    /\ Cardinality({j \in JobIds : wpc[j] = "run"}) = 3
    /\ Len(process_queue) = 3
    /\ pc = "drain"


\* The head process has left the admission loop of lines 371-389.
Draining == pc \in {"drain", "report", "done"}

\* C27: the head process leaves the admission loop only from the test of
\* line 371 that found sim_queue empty; from then on it only polls, reports
\* and ends (or is terminated): nothing is taken out of sim_queue, to which
\* queue_sim may still append, and no worker is started.
C27_NoDequeueAfterLoop ==
    [][ /\ (Draining' /\ ~Draining) => (pc = "while" /\ QueueEmpty(sim_queue))
        /\ Draining =>
              /\ Draining' \/ pc' = "terminated"
              /\ \/ sim_queue' = sim_queue
                 \/ \E j \in DOMAIN sims' : /\ j \notin DOMAIN sims
                                            /\ sim_queue' = Append(sim_queue, j)
              /\ head_process_list' = head_process_list
              /\ \A j \in JobIds : wpc[j] = "none" => wpc'[j] = "none"
      ]_vars

\* C27 witness: the third simulation was queued while the head process
\* polled for the first two; completion is reported, the third simulation is
\* in sim_queue and has no worker.
C27_Witness ==
    /\ pc = "done"
    /\ head_process_list = <<1, 2>>
    /\ sim_queue = <<3>>
    /\ wpc[3] = "none"
    /\ sims[3].runs = 0



\* The simulations taken out of sim_queue for which no worker was started.
Orphaned == {j \in DOMAIN sims : j \notin Range(sim_queue) /\ wpc[j] = "none"}

\* C28: the failure of the query of line 375 ends the head process and
\* changes nothing else: the simulation it holds is out of sim_queue and
\* without a worker, and stays so; its token is in process_queue with those
\* of the workers, and stays, since tokens are taken out only by workers
\* ending their run; the workers started before go on: each one at its run
\* can finish it and take its token out.
C28_FailedQueryLosesJob ==
    /\ [](pc = "failed" =>
            /\ Cardinality(Orphaned) <= 1
            /\ StaleTokens = Cardinality(Orphaned) + Cardinality(Dead)
            /\ \A j \in JobIds : wpc[j] = "run" => ENABLED Execute(j))
    /\ [][ /\ (pc = "gpu" /\ pc' = "failed") =>
                 /\ smi_error'
                 /\ UNCHANGED <<sims, queues, wpc, head_process_list>>
                 /\ Orphaned' = {sim}
           /\ pc = "failed" =>
                 /\ pc' = "failed"
                 /\ Orphaned' = Orphaned
                 /\ Len(process_queue') < Len(process_queue) =>
                       /\ Len(process_queue') = Len(process_queue) - 1
                       /\ \E j \in JobIds : wpc[j] = "run" /\ wpc'[j] = "exited"
         ]_vars

\* C28 witness: the query for the second simulation failed while the first
\* worker ran; that worker has since finished and released, the second
\* simulation is neither in sim_queue nor launched, the third is still
\* queued, and the token of the second is the one left in process_queue.
C28_Witness ==
    /\ pc = "failed"
    /\ Orphaned = {2}
    /\ wpc[1] = "exited"
    /\ sims[1].runs = 1
    /\ sims[2].CUDA_device = -1
    /\ sim_queue = <<3>>
    /\ Len(process_queue) = 1



\* C29: when get_sim_mem has raised for want of the word 'memory:', the
\* 'steps' and 'lastconf_file' of the simulation are those it had before
\* the call, in its input and in the input.json written last: line 346 has
\* run before line 349.  Nothing was returned for that call, and the engine
\* had been run for 0 steps.
C29_RestoredBeforeRaise ==
    probe.pc = "raised" =>
        /\ ~HasWord(probe.out, "memory:")
        /\ probe.input.steps = probe.before.steps
        /\ probe.input.lastconf_file = probe.before.lastconf_file
        /\ probe.json = probe.input
        /\ Len(probe.ran) = Len(probe.returned) + 1
        /\ probe.ran[Len(probe.ran)] = "0"

\* C29 witness: a first call returned the footprint; the second one raised,
\* for a simulation prepared with steps 1e6 and lastconf_file out.dat, which
\* its input holds again.
C29_Witness ==
    /\ probe.pc = "raised"
    /\ Len(probe.returned) = 1
    /\ probe.before.steps = StrValue("1e6")
    /\ probe.input.steps = StrValue("1e6")
    /\ probe.input.lastconf_file = StrValue("out.dat")

====
